---- MODULE Spec2Model ----
(***************************************************************************)
(* A model of the serverless deployment wrapper (package sls, wrapper.go). *)
(*                                                                         *)
(* Strings are sequences of atoms.  Wherever the program searches or       *)
(* compares text (the suffix placeholder, error prefixes, the decimal      *)
(* rendering of the clock) an atom is one character.  Command words that   *)
(* the program only passes along ("deploy", "mvn", ...) are one atom each. *)
(***************************************************************************)
EXTENDS Integers, Sequences, FiniteSets, TLC

VARIABLES
    pc,          \* position of the caller's thread
    op,          \* the Wrapper method in progress: "none", "Deploy", "Remove", "List"
    wrapper,     \* TRUE once New has returned a *Wrapper
    newErr,      \* the error New returned
    newIn,       \* what New was called with and found: provider, tool, file, descriptor
    provider,    \* Wrapper.provider
    stack,       \* Wrapper.stack: [StackId, ProviderName, Functions]
    suffix,      \* Wrapper.suffix
    Opts,        \* Wrapper.Opts
    now,         \* the last wall clock reading of time.Now().UnixNano()
    retries,     \* local of execSlsCmd
    resp,        \* local of execSlsCmd
    err,         \* local err of the method in progress
    running,     \* number of child processes started by execCmd and not yet waited for
    last,        \* what the most recent execCmd call returned: <<output, error>>
    slsCmd,      \* parameter slsCmd of execSlsCmd, as appended to
    log,         \* what the call in progress has done so far: stat, exec and sleep events
    steps,       \* what the build steps of the DeployStack call in progress returned
    ret,         \* the error the most recent method call returned
    calls,       \* number of Deploy/Remove/List calls made
    deploys,     \* number of DeployStack calls made
    prevSuffix,  \* Wrapper.suffix as it was when the most recent DeployStack was called
    prevFuncs,   \* Wrapper.stack.Functions as it was when the most recent DeployStack was called
    \* ---- one execCmd call, goroutine by goroutine (SpecExec) ----
    ePc,         \* position of the goroutine that called execCmd
    child,       \* the child process: what it has yet to write, has written, and its end
    pipeOut,     \* bytes written by the child to stdout and not yet read
    pipeErr,     \* bytes written by the child to stderr and not yet read
    rdClosed,    \* the parent's read ends of both pipes are closed (by cmd.Wait)
    cpOut,       \* position of the goroutine copying stdout
    cpErr,       \* position of the goroutine copying stderr
    stdoutBuf,   \* bytes.Buffer stdoutBuf
    stderrBuf,   \* bytes.Buffer stderrBuf
    errStdout,   \* shared variable errStdout
    errStderr,   \* shared variable errStderr
    eRet         \* what execCmd returned: <<output, error>>

orchVars == <<pc, op, wrapper, newErr, newIn, provider, stack, suffix, Opts, now, retries,
              resp, err, running, last, slsCmd, log, steps, ret, calls, deploys, prevSuffix,
              prevFuncs>>
execVars == <<ePc, child, pipeOut, pipeErr, rdClosed, cpOut, cpErr, stdoutBuf, stderrBuf,
              errStdout, errStderr, eRet>>
vars == <<orchVars, execVars>>

-----------------------------------------------------------------------------
(* Bounds of the model *)

\* Deploy/Remove/List calls made on one Wrapper
MaxCalls == 2
\* the clock advances by 1..MaxTick nanoseconds between two readings
MaxTick == 1
\* the first clock reading is taken after Epoch
Epoch == 9
\* the child writes its output in at most this many chunks (SpecExec)
MaxChunks == 2

(* Program constants *)
slsRetries == 10

-----------------------------------------------------------------------------
(* Text *)

Min(S) == CHOOSE x \in S : \A y \in S : x <= y

\* strings.HasPrefix
HasPrefix(s, prefix) ==
    /\ Len(s) >= Len(prefix)
    /\ SubSeq(s, 1, Len(prefix)) = prefix

\* the positions at which sub occurs in s
Occurrences(s, sub) ==
    {i \in 1..(Len(s) - Len(sub) + 1) : SubSeq(s, i, i + Len(sub) - 1) = sub}

\* strings.Contains
Contains(s, sub) == Occurrences(s, sub) # {}

\* strings.Replace(s, old, new, -1) for a non-empty old: the leftmost occurrence
\* is replaced and the search resumes behind it
RECURSIVE Replace(_, _, _)
Replace(s, old, new) ==
    IF Occurrences(s, old) = {} THEN s
    ELSE LET j == Min(Occurrences(s, old))
         IN  SubSeq(s, 1, j - 1) \o new
                 \o Replace(SubSeq(s, j + Len(old), Len(s)), old, new)

\* strings.Replace(s, old, new, 1): only the leftmost occurrence is replaced
ReplaceFirst(s, old, new) ==
    IF Occurrences(s, old) = {} THEN s
    ELSE LET j == Min(Occurrences(s, old))
         IN  SubSeq(s, 1, j - 1) \o new \o SubSeq(s, j + Len(old), Len(s))

Digit(d) == <<"0", "1", "2", "3", "4", "5", "6", "7", "8", "9">>[d + 1]

RECURSIVE FormatUint(_)
FormatUint(n) == IF n < 10 THEN <<Digit(n)>> ELSE FormatUint(n \div 10) \o <<Digit(n % 10)>>

\* a coarser clock unit: what is formatted is the reading divided by ten
FormatCoarse(n) == FormatUint(n \div 10)

\* strconv.FormatInt(n, 10)
FormatInt(n) == IF n < 0 THEN <<"-">> \o FormatUint(-n) ELSE FormatUint(n)

IsSpace(c) == c \in {" ", "\n", "\t", "\r"}

\* strings.TrimSpace
RECURSIVE TrimLeft(_)
TrimLeft(s) == IF s # <<>> /\ IsSpace(Head(s)) THEN TrimLeft(Tail(s)) ELSE s
RECURSIVE TrimRight(_)
TrimRight(s) ==
    IF s # <<>> /\ IsSpace(s[Len(s)]) THEN TrimRight(SubSeq(s, 1, Len(s) - 1)) ELSE s
TrimSpace(s) == TrimRight(TrimLeft(s))

\* "${opt:suffix}", the token DeployStack substitutes
Placeholder == <<"$", "{", "o", "p", "t", ":", "s", "u", "f", "f", "i", "x", "}">>
\* "-${opt:suffix}", the token StackId strips
DashPlaceholder == <<"-">> \o Placeholder

-----------------------------------------------------------------------------
(* Errors: nil, or an error value with its Error() text *)

Nil == [nil |-> TRUE, text |-> <<>>]
Error(t) == [nil |-> FALSE, text |-> t]

\* errors.New("serverless framework is not installed")
ErrNotInstalled == Error(<<"serverless framework is not installed">>)
\* errors.New("failed to capture stdout or stderr")
ErrCapture == Error(<<"f", "a", "i", "l", "e", "d", " ", "t", "o", " ", "capture stdout or stderr">>)
\* ioutil.ReadFile failing
ErrRead == Error(<<"o", "p", "e", "n", " ", "serverless.yml: no such file or directory">>)
\* yaml.Unmarshal failing
ErrYaml == Error(<<"y", "a", "m", "l", ":", " ", "unmarshal errors">>)
\* fmt.Sprintf("expected provider %s, found provider: %s", provider, found)
ErrProvider(expected, found) ==
    Error(<<"expected provider ">> \o expected \o <<", found provider: ">> \o found)
\* os.Stat failing with something else than "does not exist"
ErrStat == Error(<<"s", "t", "a", "t", " ", "permission denied">>)
\* cmd.Start failing
ErrStart == Error(<<"f", "o", "r", "k", "/", "e", "x", "e", "c", " ", "permission denied">>)
\* cmd.Wait reporting a non-zero exit
ErrExit == Error(<<"e", "x", "i", "t", " ", "s", "t", "a", "t", "u", "s", " ", "1">>)
\* an error of the child whose text starts with WARNING
ErrWarning == Error(<<"W", "A", "R", "N", "I", "N", "G", ":", " ", "advisory">>)
\* "WARNING", the prefix buildJava looks for
WarningPrefix == <<"W", "A", "R", "N", "I", "N", "G">>

-----------------------------------------------------------------------------
(* The environment: service descriptors, the file system, child processes *)

\* the yamlDirPath handed to New
YamlDirPath == <<"/stack">>
\* path.Join(yamlDirPath, platform)
Join(dir, name) == dir \o <<"/">> \o name

Providers == {<<"aws">>, <<"gcp">>}

Meta(name) == [Name |-> name, Handler |-> <<"handler.hello">>]

NoFunctions == [k \in {} |-> Meta(<<>>)]

\* "${opt:su" and "ffix}": a placeholder cut in two
PlaceholderLeft == SubSeq(Placeholder, 1, 8)
PlaceholderRight == SubSeq(Placeholder, 9, 13)

\* what serverless.yml can hold: service, and functions with their names
Templates ==
    { \* service: s-${opt:suffix}, hello: h-${opt:suffix}
      [StackId |-> <<"s">> \o DashPlaceholder,
       Functions |-> [k \in {"hello"} |-> Meta(<<"h", "-">> \o Placeholder)]],
      \* service: s${opt:suffix}, hello: h, bye: ${opt:suffix}-${opt:suffix}
      [StackId |-> <<"s">> \o Placeholder,
       Functions |-> [k \in {"hello", "bye"} |->
                        IF k = "hello" THEN Meta(<<"h">>)
                        ELSE Meta(Placeholder \o <<"-">> \o Placeholder)]],
      \* service: -${opt:su-${opt:suffix}ffix}, hello: ${opt:su${opt:suffix}ffix}
      [StackId |-> <<"-">> \o PlaceholderLeft \o DashPlaceholder \o PlaceholderRight,
       Functions |-> [k \in {"hello"} |->
                        Meta(PlaceholderLeft \o Placeholder \o PlaceholderRight)]],
      \* service: s, no functions
      [StackId |-> <<"s">>, Functions |-> NoFunctions] }

\* every template under provider aws, and one under provider gcp
Descriptors ==
    {[StackId |-> t.StackId, ProviderName |-> <<"aws">>, Functions |-> t.Functions] :
        t \in Templates}
    \cup {[StackId |-> <<"s">>, ProviderName |-> <<"gcp">>, Functions |-> NoFunctions]}

\* os.Stat on a platform directory: it is not there, it is there, or Stat fails otherwise
StatResults == {"absent", "present", "error"}

\* what a child process can write to its standard output
ChildOutputs == {<<>>, <<" ", "o", "\n">>}
\* what cmd.Wait can return.  An error whose text starts with WARNING is what line 200
\* expects of mvn; no other caller of execCmd looks at the text of an error
WaitErrs(command) ==
    IF command = <<"mvn">> THEN {Nil, ErrExit, ErrWarning} ELSE {Nil, ErrExit}

\* execCmd, lines 126-138, for a started child that writes out and whose Wait returns
\* werr: the two copying goroutines are not joined, so the captured output is whatever
\* part has been copied when line 138 reads the buffer, and a copy that fails on the
\* pipe closed by Wait can be seen by line 135
ExecResults(out, werr) ==
    {<<<<>>, ErrCapture>>} \cup {<<TrimSpace(SubSeq(out, 1, k)), werr>> : k \in 0..Len(out)}

\* every result of an execCmd call whose child started
Finished(command) ==
    UNION {ExecResults(out, werr) : out \in ChildOutputs, werr \in WaitErrs(command)}

\* what the caller can put into the exported map Wrapper.Opts
OptSets ==
    { [k \in {<<"stage">>, <<"region">>} |-> IF k = <<"stage">> THEN <<"dev">> ELSE <<"eu">>] }

\* os.Environ() of the process that runs the wrapper
Environ == << <<"PATH=/usr/bin">>, <<"GOOS=darwin">> >>

\* execCmd, lines 113-121: the environment of the child.  cmd.Env is never assigned, and
\* a Cmd whose Env is nil is started with the environment of the current process; the
\* parameter env is not read
CmdEnv(env) == Environ

StatEv(path, st) == [ev |-> "stat", path |-> path, res |-> st]
ExecEv(env, dir, command, args) ==
    [ev |-> "exec", env |-> env, childEnv |-> CmdEnv(env), dir |-> dir, command |-> command,
     args |-> args]
SleepEv == [ev |-> "sleep", seconds |-> 5]

-----------------------------------------------------------------------------
(* Construction *)

\* ParseConfig without the comparison of line 84
ParseConfigAnyProvider(p, readOk, yamlOk, d) ==
    IF ~readOk THEN ErrRead
    ELSE IF ~yamlOk THEN ErrYaml
    ELSE Nil

\* ParseConfig, lines 72-89
ParseConfig(p, readOk, yamlOk, d) ==
    IF ~readOk THEN ErrRead
    ELSE IF ~yamlOk THEN ErrYaml
    ELSE IF p # d.ProviderName THEN ErrProvider(p, d.ProviderName)
    ELSE Nil

\* New(provider, yamlDirPath)
New ==
    /\ pc = "new"
    /\ \E p \in Providers, found \in BOOLEAN, readOk \in BOOLEAN, yamlOk \in BOOLEAN,
          d \in Descriptors :
         /\ newIn' = [provider |-> p, found |-> found, readOk |-> readOk, yamlOk |-> yamlOk,
                       descriptor |-> d]
         /\ IF ~found
            THEN /\ newErr' = ErrNotInstalled
                 /\ log' = <<[ev |-> "LookPath"]>>
                 /\ pc' = "noWrapper"
                 /\ UNCHANGED <<wrapper, provider, stack>>
            ELSE LET e == ParseConfig(p, readOk, yamlOk, d)
                 IN  /\ newErr' = e
                     /\ log' = <<[ev |-> "LookPath"], [ev |-> "ReadFile"]>>
                     /\ IF e = Nil
                        THEN /\ wrapper' = TRUE
                             /\ provider' = p
                             /\ stack' = d
                             /\ pc' = "idle"
                        ELSE /\ pc' = "noWrapper"
                             /\ UNCHANGED <<wrapper, provider, stack>>
    /\ UNCHANGED <<op, suffix, Opts, now, retries, resp, err, running, last, slsCmd, steps,
                   ret, calls, deploys, prevSuffix, prevFuncs>>
    /\ UNCHANGED execVars

-----------------------------------------------------------------------------
(* DeployStack and its build steps *)

\* the variables no step of a running method changes
frame == <<op, wrapper, newErr, newIn, provider, stack, suffix, Opts, now, calls, deploys,
           prevSuffix, prevFuncs>>

\* a method is entered: its locals and results are fresh, and the record of what the
\* call has done starts empty
Enter ==
    /\ log' = <<>>
    /\ steps' = <<>>
    /\ err' = Nil
    /\ ret' = Nil
    /\ resp' = <<>>
    /\ retries' = 0
    /\ slsCmd' = <<>>
    /\ last' = <<<<>>, Nil>>

\* lines 164-169 with strings.Replace(..., 1)
RewriteFirst(functions, sfx) ==
    [k \in DOMAIN functions |->
        [functions[k] EXCEPT !.Name = ReplaceFirst(functions[k].Name, Placeholder, sfx)]]

\* lines 164-169 leaving the names as they are
RewriteNothing(functions, sfx) == functions

\* lines 164-169 replacing, besides the placeholder, the suffix of the call before
RewriteRenew(functions, sfx) ==
    [k \in DOMAIN functions |->
        [functions[k] EXCEPT !.Name =
            IF suffix = <<>> THEN Replace(functions[k].Name, Placeholder, sfx)
            ELSE Replace(Replace(functions[k].Name, Placeholder, sfx), suffix, sfx)]]

\* lines 164-169: the function map with the placeholder of every name replaced
Rewrite(functions, sfx) ==
    [k \in DOMAIN functions |->
        [functions[k] EXCEPT !.Name = Replace(functions[k].Name, Placeholder, sfx)]]

\* time.Now().UnixNano(), line 162.  The environment is taken to be one whose wall
\* clock reads at least one nanosecond more at every DeployStack call than at the one
\* before; the program does nothing to make it so.
ClockReadings == {now + d : d \in 1..MaxTick}

\* DeployStack, lines 160-170
DeployStack ==
    /\ pc = "idle"
    /\ calls < MaxCalls
    /\ \E t \in ClockReadings :
         /\ now' = t
         /\ suffix' = FormatInt(t)
         /\ stack' = [stack EXCEPT !.Functions = Rewrite(stack.Functions, FormatInt(t))]
    /\ prevSuffix' = suffix
    /\ prevFuncs' = stack.Functions
    /\ op' = "Deploy"
    /\ pc' = "java8"
    /\ calls' = calls + 1
    /\ deploys' = deploys + 1
    /\ Enter
    /\ UNCHANGED <<wrapper, newErr, newIn, provider, Opts, running>>
    /\ UNCHANGED execVars

\* the steps with buildCsharp called before buildJava("java11")
NextStepCsharpEarly(step) ==
    CASE step = "java8" -> "csharp"
      [] step = "csharp" -> "java11"
      [] step = "java11" -> "golang"
      [] step = "golang" -> "sls"

\* the order of DeployStack's steps, lines 171-187
NextStep(step) ==
    CASE step = "java8" -> "java11"
      [] step = "java11" -> "csharp"
      [] step = "csharp" -> "golang"
      [] step = "golang" -> "sls"

\* DeployStack without the checks of lines 172-186: the result of a step is dropped
ProceedAnyway(step, e) ==
    /\ steps' = Append(steps, <<step, e>>)
    /\ pc' = NextStep(step)
    /\ err' = e
    /\ UNCHANGED ret

\* DeployStack calling a failed build step once more
ProceedAgain(step, e) ==
    /\ steps' = Append(steps, <<step, e>>)
    /\ err' = e
    /\ UNCHANGED ret
    /\ pc' = IF e = Nil THEN NextStep(step) ELSE step

\* DeployStack, lines 171-186: a nil result of a build step goes on to the next step,
\* any other is returned
Proceed(step, e) ==
    /\ steps' = Append(steps, <<step, e>>)
    /\ IF e = Nil
       THEN /\ pc' = NextStep(step)
            /\ err' = Nil
            /\ UNCHANGED ret
       ELSE /\ pc' = "idle"
            /\ err' = e
            /\ ret' = e

\* platformPath without the os.IsNotExist case of lines 246-248
PlatformPathAnyError(platform, st) ==
    IF st \in {"absent", "error"} THEN <<<<>>, FALSE, ErrStat>>
    ELSE <<Join(YamlDirPath, platform), TRUE, Nil>>

\* platformPath(platform), lines 243-253, given what os.Stat finds:
\* <<srcPath, inStack, err>>
PlatformPath(platform, st) ==
    IF st = "absent" THEN <<<<>>, FALSE, Nil>>
    ELSE IF st = "error" THEN <<<<>>, FALSE, ErrStat>>
    ELSE <<Join(YamlDirPath, platform), TRUE, Nil>>

\* a build step up to the cmd.Start of its first command: platformPath, the early
\* returns, execCmd lines 113-124; failed is what the step returns when the command
\* does not start
BuildStart(step, env, command, args, failed) ==
    \E st \in StatResults :
        LET pp == PlatformPath(<<step>>, st)
            stat == StatEv(Join(YamlDirPath, <<step>>), st)
        IN  IF pp[3] # Nil
            THEN /\ log' = Append(log, stat)
                 /\ Proceed(step, pp[3])
                 /\ UNCHANGED <<running, last>>
            ELSE IF ~pp[2]
            THEN /\ log' = Append(log, stat)
                 /\ Proceed(step, Nil)
                 /\ UNCHANGED <<running, last>>
            ELSE /\ log' = log \o <<stat, ExecEv(env, pp[1], command, args)>>
                 /\ \E started \in BOOLEAN :
                      IF started
                      THEN /\ running' = running + 1
                           /\ UNCHANGED <<pc, err, ret, last, steps>>
                      ELSE /\ last' = <<<<>>, ErrStart>>
                           /\ Proceed(step, failed)
                           /\ UNCHANGED running

\* buildJava without lines 200-202
JavaResultStrict(e) == e

\* buildJava, lines 200-203
JavaResult(e) == IF e # Nil /\ HasPrefix(e.text, WarningPrefix) THEN Nil ELSE e

MvnArgs == << <<"package">> >>

\* buildJava(version) up to cmd.Start of mvn package, lines 192-199 and 113-124
BuildJava(version) ==
    /\ pc = version
    /\ running = 0
    /\ BuildStart(version, <<>>, <<"mvn">>, MvnArgs, JavaResult(ErrStart))
    /\ UNCHANGED <<frame, retries, resp, slsCmd>>
    /\ UNCHANGED execVars

\* buildJava(version) from cmd.Wait of mvn package on, lines 126-138 and 200-203
BuildJavaWait(version) ==
    /\ pc = version
    /\ running = 1
    /\ \E r \in Finished(<<"mvn">>) :
         /\ last' = r
         /\ Proceed(version, JavaResult(r[2]))
    /\ running' = running - 1
    /\ UNCHANGED <<frame, retries, resp, slsCmd, log>>
    /\ UNCHANGED execVars

RestoreArgs == << <<"restore">> >>
PackageArgs ==
    << <<"lambda">>, <<"package">>, <<"--configuration">>, <<"release">>, <<"--framework">>,
       <<"netcoreapp2.1">>, <<"--output-package">>, <<"./deploy.zip">> >>
DotnetPackage(dir) == ExecEv(<<>>, dir, <<"dotnet">>, PackageArgs)

\* buildCsharp up to cmd.Start of dotnet restore, lines 218-225 and 113-124
BuildCsharp ==
    /\ pc = "csharp"
    /\ running = 0
    /\ BuildStart("csharp", <<>>, <<"dotnet">>, RestoreArgs, ErrStart)
    /\ UNCHANGED <<frame, retries, resp, slsCmd>>
    /\ UNCHANGED execVars

\* buildCsharp from cmd.Wait of dotnet restore on, lines 126-138 and 226-228
BuildCsharpRestoreWait ==
    /\ pc = "csharp"
    /\ running = 1
    /\ \E r \in Finished(<<"dotnet">>) :
         /\ last' = r
         /\ IF r[2] # Nil
            THEN Proceed("csharp", r[2])
            ELSE /\ pc' = "csharpPackage"
                 /\ UNCHANGED <<err, ret, steps>>
    /\ running' = running - 1
    /\ UNCHANGED <<frame, retries, resp, slsCmd, log>>
    /\ UNCHANGED execVars

\* buildCsharp, cmd.Start of dotnet lambda package, lines 229-239 and 113-124
BuildCsharpPackage ==
    /\ pc = "csharpPackage"
    /\ running = 0
    /\ log' = Append(log, DotnetPackage(Join(YamlDirPath, <<"csharp">>)))
    /\ \E started \in BOOLEAN :
         IF started
         THEN /\ running' = running + 1
              /\ UNCHANGED <<pc, err, ret, last, steps>>
         ELSE /\ last' = <<<<>>, ErrStart>>
              /\ Proceed("csharp", ErrStart)
              /\ UNCHANGED running
    /\ UNCHANGED <<frame, retries, resp, slsCmd>>
    /\ UNCHANGED execVars

\* buildCsharp from cmd.Wait of dotnet lambda package on, lines 126-138 and 240
BuildCsharpPackageWait ==
    /\ pc = "csharpPackage"
    /\ running = 1
    /\ \E r \in Finished(<<"dotnet">>) :
         /\ last' = r
         /\ Proceed("csharp", r[2])
    /\ running' = running - 1
    /\ UNCHANGED <<frame, retries, resp, slsCmd, log>>
    /\ UNCHANGED execVars

GoEnv == << <<"GOOS=linux">>, <<"GO111MODULE=on">> >>
GoArgs ==
    << <<"build">>, <<"-ldflags">>, <<"-s">>, <<"-ldflags">>, <<"-w">>, <<"-o">>,
       <<"bin/hello">>, <<"main.go">> >>

\* buildGolang up to cmd.Start of go build, lines 256-264 and 113-124
BuildGolang ==
    /\ pc = "golang"
    /\ running = 0
    /\ BuildStart("golang", GoEnv, <<"go">>, GoArgs, ErrStart)
    /\ UNCHANGED <<frame, retries, resp, slsCmd>>
    /\ UNCHANGED execVars

\* buildGolang from cmd.Wait of go build on, lines 126-138 and 265
BuildGolangWait ==
    /\ pc = "golang"
    /\ running = 1
    /\ \E r \in Finished(<<"go">>) :
         /\ last' = r
         /\ Proceed("golang", r[2])
    /\ running' = running - 1
    /\ UNCHANGED <<frame, retries, resp, slsCmd, log>>
    /\ UNCHANGED execVars

-----------------------------------------------------------------------------
(* execSlsCmd and the methods that only call it *)

\* the subcommand words DeployStack, RemoveStack and ListFunction hand to execSlsCmd,
\* lines 187, 207 and 212
SubCommand(method) ==
    CASE method = "Deploy" -> << <<"deploy">>, <<"--no-aws-s3-accelerate">> >>
      [] method = "Remove" -> << <<"remove">> >>
      [] method = "List" -> << <<"deploy">>, <<"list">>, <<"functions">> >>

\* the orders in which a range over a map with keys S can visit them
RECURSIVE Orders(_)
Orders(S) ==
    IF S = {} THEN {<<>>}
    ELSE UNION {{<<k>> \o rest : rest \in Orders(S \ {k})} : k \in S}

\* lines 145-148 without line 147: only "--"+opt is appended
RECURSIVE OptArgsNoValue(_, _)
OptArgsNoValue(opts, order) ==
    IF order = <<>> THEN <<>>
    ELSE << <<"-", "-">> \o Head(order) >> \o OptArgsNoValue(opts, Tail(order))

\* lines 145-148: "--"+opt and optVal for every entry of w.Opts, in the order visited
RECURSIVE OptArgs(_, _)
OptArgs(opts, order) ==
    IF order = <<>> THEN <<>>
    ELSE << <<"-", "-">> \o Head(order), opts[Head(order)] >> \o OptArgs(opts, Tail(order))

\* the sls invocation of execSlsCmd, lines 151 and 153
Sls(args) == ExecEv(<<>>, YamlDirPath, <<"sls">>, args)

\* the loop condition with retries > 1
AfterAttemptOneLess(r, n) ==
    /\ resp' = r[1]
    /\ err' = r[2]
    /\ retries' = n
    /\ IF r[2] # Nil /\ n > 1
       THEN /\ pc' = "slsLoop"
            /\ UNCHANGED ret
       ELSE /\ pc' = "idle"
            /\ ret' = r[2]

\* the loop condition without err != nil
AfterAttemptKeepsOn(r, n) ==
    /\ resp' = r[1]
    /\ err' = r[2]
    /\ retries' = n
    /\ IF n > 0
       THEN /\ pc' = "slsLoop"
            /\ UNCHANGED ret
       ELSE /\ pc' = "idle"
            /\ ret' = r[2]

\* the loop without retries-- of line 155
AfterAttemptBudgetKept(r, n) ==
    /\ resp' = r[1]
    /\ err' = r[2]
    /\ retries' = slsRetries
    /\ IF r[2] # Nil
       THEN /\ pc' = "slsLoop"
            /\ UNCHANGED ret
       ELSE /\ pc' = "idle"
            /\ ret' = r[2]

\* lines 152 and 157: after an attempt returned r with n retries left, the loop goes
\* round again or execSlsCmd returns, and with it the method that called it
AfterAttempt(r, n) ==
    /\ resp' = r[1]
    /\ err' = r[2]
    /\ retries' = n
    /\ IF r[2] # Nil /\ n > 0
       THEN /\ pc' = "slsLoop"
            /\ UNCHANGED ret
       ELSE /\ pc' = "idle"
            /\ ret' = r[2]

\* execSlsCmd up to cmd.Start of the first attempt, lines 142-151 and 113-124
ExecSlsCmd ==
    /\ pc = "sls"
    /\ running = 0
    /\ \E order \in Orders(DOMAIN Opts) :
         LET args == SubCommand(op) \o << <<"-", "-", "suffix">>, suffix >>
                         \o OptArgs(Opts, order)
         IN  /\ slsCmd' = args
             /\ log' = Append(log, Sls(args))
    /\ \E started \in BOOLEAN :
         IF started
         THEN /\ running' = running + 1
              /\ pc' = "slsFirst"
              /\ retries' = slsRetries
              /\ UNCHANGED <<resp, err, ret, last>>
         ELSE /\ last' = <<<<>>, ErrStart>>
              /\ AfterAttempt(<<<<>>, ErrStart>>, slsRetries)
              /\ UNCHANGED running
    /\ UNCHANGED <<frame, steps>>
    /\ UNCHANGED execVars

\* execSlsCmd from cmd.Wait of the first attempt on, lines 126-138 and 152
ExecSlsCmdWait ==
    /\ pc = "slsFirst"
    /\ running = 1
    /\ \E r \in Finished(<<"sls">>) :
         /\ last' = r
         /\ AfterAttempt(r, retries)
    /\ running' = running - 1
    /\ UNCHANGED <<frame, slsCmd, log, steps>>
    /\ UNCHANGED execVars

\* one round of the loop up to cmd.Start, lines 153 and 113-124; when the child does
\* not start the round is finished at once, lines 154-155
Retry ==
    /\ pc = "slsLoop"
    /\ running = 0
    /\ \E started \in BOOLEAN :
         IF started
         THEN /\ running' = running + 1
              /\ log' = Append(log, Sls(slsCmd))
              /\ UNCHANGED <<pc, retries, resp, err, ret, last>>
         ELSE /\ last' = <<<<>>, ErrStart>>
              /\ log' = log \o <<Sls(slsCmd), SleepEv>>
              /\ AfterAttempt(<<<<>>, ErrStart>>, retries - 1)
              /\ UNCHANGED running
    /\ UNCHANGED <<frame, slsCmd, steps>>
    /\ UNCHANGED execVars

\* one round of the loop from cmd.Wait on, lines 126-138 and 154-155
RetryWait ==
    /\ pc = "slsLoop"
    /\ running = 1
    /\ \E r \in Finished(<<"sls">>) :
         /\ last' = r
         /\ AfterAttempt(r, retries - 1)
    /\ log' = Append(log, SleepEv)
    /\ running' = running - 1
    /\ UNCHANGED <<frame, slsCmd, steps>>
    /\ UNCHANGED execVars

\* RemoveStack forgetting the suffix of the last deployment
RemoveStackClearsSuffix ==
    /\ pc = "idle"
    /\ calls < MaxCalls
    /\ op' = "Remove"
    /\ pc' = "sls"
    /\ calls' = calls + 1
    /\ suffix' = <<>>
    /\ Enter
    /\ UNCHANGED <<wrapper, newErr, newIn, provider, stack, Opts, now, running,
                   deploys, prevSuffix, prevFuncs>>
    /\ UNCHANGED execVars

\* RemoveStack, line 207
RemoveStack ==
    /\ pc = "idle"
    /\ calls < MaxCalls
    /\ op' = "Remove"
    /\ pc' = "sls"
    /\ calls' = calls + 1
    /\ Enter
    /\ UNCHANGED <<wrapper, newErr, newIn, provider, stack, suffix, Opts, now, running,
                   deploys, prevSuffix, prevFuncs>>
    /\ UNCHANGED execVars

\* ListFunction, line 212
ListFunction ==
    /\ pc = "idle"
    /\ calls < MaxCalls
    /\ op' = "List"
    /\ pc' = "sls"
    /\ calls' = calls + 1
    /\ Enter
    /\ UNCHANGED <<wrapper, newErr, newIn, provider, stack, suffix, Opts, now, running,
                   deploys, prevSuffix, prevFuncs>>
    /\ UNCHANGED execVars

\* the caller fills the exported map w.Opts, which New left empty, before its first call
SetOpts ==
    /\ pc = "idle"
    /\ calls = 0
    /\ DOMAIN Opts = {}
    /\ \E o \in OptSets : Opts' = o
    /\ UNCHANGED <<pc, op, wrapper, newErr, newIn, provider, stack, suffix, now, retries, resp,
                   err, running, last, slsCmd, log, steps, ret, calls, deploys, prevSuffix,
                   prevFuncs>>
    /\ UNCHANGED execVars

\* StackId stripping the placeholder without the dash before it
StackIdNoDash == Replace(stack.StackId, Placeholder, <<>>)

\* StackId(), lines 95-97
StackId == Replace(stack.StackId, DashPlaceholder, <<>>)

\* ListFunctionsFromYaml()
ListFunctionsFromYaml == stack.Functions

-----------------------------------------------------------------------------
(* The wrapper and its caller *)

\* no execCmd call is looked into
ExecIdle ==
    /\ ePc = "off"
    /\ child = [state |-> "none", out |-> <<>>, errOut |-> <<>>, all |-> <<>>, werr |-> Nil]
    /\ pipeOut = <<>>
    /\ pipeErr = <<>>
    /\ rdClosed = FALSE
    /\ cpOut = "none"
    /\ cpErr = "none"
    /\ stdoutBuf = <<>>
    /\ stderrBuf = <<>>
    /\ errStdout = Nil
    /\ errStderr = Nil
    /\ eRet = <<<<>>, Nil>>

\* before New is called
OrchInit ==
    /\ pc = "new"
    /\ op = "none"
    /\ wrapper = FALSE
    /\ newErr = Nil
    /\ newIn = [provider |-> <<>>, found |-> FALSE, readOk |-> FALSE, yamlOk |-> FALSE,
                descriptor |-> [StackId |-> <<>>, ProviderName |-> <<>>,
                                Functions |-> NoFunctions]]
    /\ provider = <<>>
    /\ stack = [StackId |-> <<>>, ProviderName |-> <<>>, Functions |-> NoFunctions]
    /\ suffix = <<>>
    /\ Opts = [k \in {} |-> <<>>]
    /\ now = Epoch
    /\ retries = 0
    /\ resp = <<>>
    /\ err = Nil
    /\ running = 0
    /\ last = <<<<>>, Nil>>
    /\ slsCmd = <<>>
    /\ log = <<>>
    /\ steps = <<>>
    /\ ret = Nil
    /\ calls = 0
    /\ deploys = 0
    /\ prevSuffix = <<>>
    /\ prevFuncs = NoFunctions

Init == OrchInit /\ ExecIdle

Next ==
    \/ New
    \/ DeployStack
    \/ BuildJava("java8")
    \/ BuildJavaWait("java8")
    \/ BuildJava("java11")
    \/ BuildJavaWait("java11")
    \/ BuildCsharp
    \/ BuildCsharpRestoreWait
    \/ BuildCsharpPackage
    \/ BuildCsharpPackageWait
    \/ BuildGolang
    \/ BuildGolangWait
    \/ ExecSlsCmd
    \/ ExecSlsCmdWait
    \/ Retry
    \/ RetryWait
    \/ RemoveStack
    \/ ListFunction
    \/ SetOpts

Spec == Init /\ [][Next]_vars

\* the steps of a method that has been called: those of the wrapper's own code, and
\* cmd.Wait returning because the child has exited
Runs ==
    \/ BuildJava("java8")
    \/ BuildJavaWait("java8")
    \/ BuildJava("java11")
    \/ BuildJavaWait("java11")
    \/ BuildCsharp
    \/ BuildCsharpRestoreWait
    \/ BuildCsharpPackage
    \/ BuildCsharpPackageWait
    \/ BuildGolang
    \/ BuildGolangWait
    \/ ExecSlsCmd
    \/ ExecSlsCmdWait
    \/ Retry
    \/ RetryWait

\* the wrapper where the thread of the caller keeps running, every child process that
\* was started exits, and time.Sleep returns; the caller is free to make no further call
FairSpec == Init /\ [][Next]_vars /\ WF_vars(Runs)

-----------------------------------------------------------------------------
(* One execCmd call, goroutine by goroutine *)

\* what the child hands to one write call
Chunks == {<<" ", "o">>, <<"k", "\n">>}

\* the sequences of at most n writes
RECURSIVE Writes(_)
Writes(n) ==
    IF n = 0 THEN {<<>>}
    ELSE Writes(n - 1) \cup {Append(w, c) : w \in {v \in Writes(n - 1) : Len(v) = n - 1},
                                            c \in Chunks}

RECURSIVE Flatten(_)
Flatten(chunks) == IF chunks = <<>> THEN <<>> ELSE Head(chunks) \o Flatten(Tail(chunks))

\* io.Copy reading a pipe whose read end cmd.Wait has closed
ErrClosed == Error(<<"r", "e", "a", "d", " ", "|0: file already closed">>)
\* io.Copy writing to os.Stdout or os.Stderr and failing
ErrWrite == Error(<<"w", "r", "i", "t", "e", " ", "/dev/stdout: bad file descriptor">>)

\* execCmd is called for a command that, once started, writes out and errOut and ends
\* so that cmd.Wait returns werr
ExecInit ==
    /\ ePc = "start"
    /\ \E out \in Writes(MaxChunks), errOut \in Writes(MaxChunks - 1),
          werr \in WaitErrs(<<"mvn">>) :
         child = [state |-> "none", out |-> out, errOut |-> errOut, all |-> Flatten(out),
                  werr |-> werr]
    /\ pipeOut = <<>>
    /\ pipeErr = <<>>
    /\ rdClosed = FALSE
    /\ cpOut = "none"
    /\ cpErr = "none"
    /\ stdoutBuf = <<>>
    /\ stderrBuf = <<>>
    /\ errStdout = Nil
    /\ errStderr = Nil
    /\ eRet = <<<<>>, Nil>>

\* lines 113-124: cmd.Start
Start ==
    /\ ePc = "start"
    /\ \E started \in BOOLEAN :
         IF started
         THEN /\ child' = [child EXCEPT !.state = "running"]
              /\ ePc' = "goStdout"
              /\ UNCHANGED eRet
         ELSE /\ eRet' = <<<<>>, ErrStart>>
              /\ ePc' = "done"
              /\ UNCHANGED child
    /\ UNCHANGED <<pipeOut, pipeErr, rdClosed, cpOut, cpErr, stdoutBuf, stderrBuf, errStdout,
                   errStderr>>
    /\ UNCHANGED orchVars

\* line 126: go func() { _, errStdout = io.Copy(stdout, stdoutIn) }()
GoStdout ==
    /\ ePc = "goStdout"
    /\ cpOut' = "copy"
    /\ ePc' = "goStderr"
    /\ UNCHANGED <<child, pipeOut, pipeErr, rdClosed, cpErr, stdoutBuf, stderrBuf, errStdout,
                   errStderr, eRet>>
    /\ UNCHANGED orchVars

\* line 130: go func() { _, errStderr = io.Copy(stderr, stderrIn) }()
GoStderr ==
    /\ ePc = "goStderr"
    /\ cpErr' = "copy"
    /\ ePc' = "wait"
    /\ UNCHANGED <<child, pipeOut, pipeErr, rdClosed, cpOut, stdoutBuf, stderrBuf, errStdout,
                   errStderr, eRet>>
    /\ UNCHANGED orchVars

\* the child writes to its standard output
ChildWriteStdout ==
    /\ child.state = "running"
    /\ child.out # <<>>
    /\ pipeOut' = pipeOut \o Head(child.out)
    /\ child' = [child EXCEPT !.out = Tail(child.out)]
    /\ UNCHANGED <<ePc, pipeErr, rdClosed, cpOut, cpErr, stdoutBuf, stderrBuf, errStdout,
                   errStderr, eRet>>
    /\ UNCHANGED orchVars

\* the child writes to its standard error
ChildWriteStderr ==
    /\ child.state = "running"
    /\ child.errOut # <<>>
    /\ pipeErr' = pipeErr \o Head(child.errOut)
    /\ child' = [child EXCEPT !.errOut = Tail(child.errOut)]
    /\ UNCHANGED <<ePc, pipeOut, rdClosed, cpOut, cpErr, stdoutBuf, stderrBuf, errStdout,
                   errStderr, eRet>>
    /\ UNCHANGED orchVars

\* the child exits, which closes the write ends of its pipes
ChildExit ==
    /\ child.state = "running"
    /\ child.out = <<>>
    /\ child.errOut = <<>>
    /\ child' = [child EXCEPT !.state = "exited"]
    /\ UNCHANGED <<ePc, pipeOut, pipeErr, rdClosed, cpOut, cpErr, stdoutBuf, stderrBuf,
                   errStdout, errStderr, eRet>>
    /\ UNCHANGED orchVars

\* line 127, one round of io.Copy(stdout, stdoutIn): a read of the pipe, then a write to
\* os.Stdout and to stdoutBuf; when io.Copy returns, errStdout is assigned
CopyStdout ==
    /\ cpOut = "copy"
    /\ IF rdClosed
       THEN /\ errStdout' = ErrClosed
            /\ cpOut' = "done"
            /\ UNCHANGED <<pipeOut, stdoutBuf>>
       ELSE IF pipeOut # <<>>
       THEN /\ pipeOut' = <<>>
            /\ \E written \in BOOLEAN :
                 IF written
                 THEN /\ stdoutBuf' = stdoutBuf \o pipeOut
                      /\ UNCHANGED <<errStdout, cpOut>>
                 ELSE /\ errStdout' = ErrWrite
                      /\ cpOut' = "done"
                      /\ UNCHANGED stdoutBuf
       ELSE /\ child.state = "exited"
            /\ errStdout' = Nil
            /\ cpOut' = "done"
            /\ UNCHANGED <<pipeOut, stdoutBuf>>
    /\ UNCHANGED <<ePc, child, pipeErr, rdClosed, cpErr, stderrBuf, errStderr, eRet>>
    /\ UNCHANGED orchVars

\* line 131, one round of io.Copy(stderr, stderrIn)
CopyStderr ==
    /\ cpErr = "copy"
    /\ IF rdClosed
       THEN /\ errStderr' = ErrClosed
            /\ cpErr' = "done"
            /\ UNCHANGED <<pipeErr, stderrBuf>>
       ELSE IF pipeErr # <<>>
       THEN /\ pipeErr' = <<>>
            /\ \E written \in BOOLEAN :
                 IF written
                 THEN /\ stderrBuf' = stderrBuf \o pipeErr
                      /\ UNCHANGED <<errStderr, cpErr>>
                 ELSE /\ errStderr' = ErrWrite
                      /\ cpErr' = "done"
                      /\ UNCHANGED stderrBuf
       ELSE /\ child.state = "exited"
            /\ errStderr' = Nil
            /\ cpErr' = "done"
            /\ UNCHANGED <<pipeErr, stderrBuf>>
    /\ UNCHANGED <<ePc, child, pipeOut, rdClosed, cpOut, stdoutBuf, errStdout, eRet>>
    /\ UNCHANGED orchVars

\* line 134: cmd.Wait returns once the child has exited, and closes the read ends of the
\* pipes; it does not wait for the two goroutines
Wait ==
    /\ ePc = "wait"
    /\ child.state = "exited"
    /\ rdClosed' = TRUE
    /\ ePc' = "checkStdout"
    /\ UNCHANGED <<child, pipeOut, pipeErr, cpOut, cpErr, stdoutBuf, stderrBuf, errStdout,
                   errStderr, eRet>>
    /\ UNCHANGED orchVars

\* line 135, left operand: errStdout != nil
CheckStdout ==
    /\ ePc = "checkStdout"
    /\ IF errStdout # Nil
       THEN /\ eRet' = <<<<>>, ErrCapture>>
            /\ ePc' = "done"
       ELSE /\ ePc' = "checkStderr"
            /\ UNCHANGED eRet
    /\ UNCHANGED <<child, pipeOut, pipeErr, rdClosed, cpOut, cpErr, stdoutBuf, stderrBuf,
                   errStdout, errStderr>>
    /\ UNCHANGED orchVars

\* line 135, right operand: errStderr != nil
CheckStderr ==
    /\ ePc = "checkStderr"
    /\ IF errStderr # Nil
       THEN /\ eRet' = <<<<>>, ErrCapture>>
            /\ ePc' = "done"
       ELSE /\ ePc' = "return"
            /\ UNCHANGED eRet
    /\ UNCHANGED <<child, pipeOut, pipeErr, rdClosed, cpOut, cpErr, stdoutBuf, stderrBuf,
                   errStdout, errStderr>>
    /\ UNCHANGED orchVars

\* line 138: return strings.TrimSpace(stdoutBuf.String()), err
Return ==
    /\ ePc = "return"
    /\ eRet' = <<TrimSpace(stdoutBuf), child.werr>>
    /\ ePc' = "done"
    /\ UNCHANGED <<child, pipeOut, pipeErr, rdClosed, cpOut, cpErr, stdoutBuf, stderrBuf,
                   errStdout, errStderr>>
    /\ UNCHANGED orchVars

InitExec == OrchInit /\ ExecInit

NextExec ==
    \/ Start
    \/ GoStdout
    \/ GoStderr
    \/ ChildWriteStdout
    \/ ChildWriteStderr
    \/ ChildExit
    \/ CopyStdout
    \/ CopyStderr
    \/ Wait
    \/ CheckStdout
    \/ CheckStderr
    \/ Return

SpecExec == InitExec /\ [][NextExec]_vars

\* what the call returns once the child has started is a result the wrapper's methods
\* are given
ExecReturnsResult ==
    ePc = "done" /\ child.state # "none" => eRet \in ExecResults(child.all, child.werr)

-----------------------------------------------------------------------------
(* Reading the record of a call *)

ExecIdx == {i \in DOMAIN log : log[i].ev = "exec"}
StatIdx == {i \in DOMAIN log : log[i].ev = "stat"}
\* the attempts of execSlsCmd
SlsIdx == {i \in ExecIdx : log[i].command = <<"sls">>}
\* the build commands
BuildIdx == ExecIdx \ SlsIdx
SlsAttempts == Cardinality(SlsIdx)

BuildOrder == <<"java8", "java11", "csharp", "golang">>
BuildPcs == {"java8", "java11", "csharp", "csharpPackage", "golang"}
SlsPcs == {"sls", "slsFirst", "slsLoop"}

\* the step an event belongs to: 1..4 for the build steps, 5 for execSlsCmd
StepOfDir(dir) == CHOOSE k \in 1..4 : Join(YamlDirPath, <<BuildOrder[k]>>) = dir
StepOf(e) ==
    IF e.ev = "stat" THEN StepOfDir(e.path)
    ELSE IF e.ev = "exec" /\ e.command # <<"sls">> THEN StepOfDir(e.dir)
    ELSE 5

\* this step ends an execCmd call: its child is waited for, or did not start
ExecCmdReturns ==
    \/ running' < running
    \/ /\ running' = running
       /\ \E i \in (Len(log) + 1)..Len(log') : log'[i].ev = "exec"

\* every build step of the call found its directory missing
AllAbsent ==
    /\ Cardinality(StatIdx) = 4
    /\ \A i \in StatIdx : log[i].res = "absent"

-----------------------------------------------------------------------------
(* Claims *)

\* execSlsCmd has returned an error: every attempt failed
SlsGaveUp == pc = "idle" /\ ret # Nil /\ SlsAttempts > 0

\* C1 as stated: when every attempt fails, execSlsCmd has started the tool exactly 10
\* times when it returns the error of the last attempt.
C1_TenAttempts == SlsGaveUp => SlsAttempts = 10 /\ ret = last[2]

\* C1 (amended): when every attempt fails, execSlsCmd has started the tool exactly
\* slsRetries + 1 = 11 times (the first attempt and ten retries) when it returns, and
\* it returns the error of the last attempt.
C1_RetriesPlusOne == SlsGaveUp => SlsAttempts = slsRetries + 1 /\ ret = last[2]

C1_Witness == SlsGaveUp /\ SlsAttempts = slsRetries + 1 /\ ret = ErrExit

\* an attempt of execSlsCmd ends with a nil error
AttemptSucceeds == pc \in SlsPcs /\ running' < running /\ last'[2] = Nil

ReturnsOnSuccess ==
    AttemptSucceeds =>
        /\ pc' = "idle"
        /\ ret' = Nil
        /\ resp' = last'[1]
        /\ ExecIdx' = ExecIdx

\* a method that has returned adds nothing to the record of its call
NothingAfterReturn == pc = "idle" => log' = log \/ log' = <<>>

\* C2: when an attempt of execSlsCmd succeeds (attempt N, after N-1 failed ones, for
\* any N from 1 to 10) execSlsCmd returns at once with a nil error and the output of
\* that attempt, and the call starts no further attempt.
C2_FirstSuccessReturned ==
    /\ [][ReturnsOnSuccess]_vars
    /\ [][NothingAfterReturn]_vars
    /\ [](pc = "idle" /\ SlsAttempts > 0 /\ ret = Nil => last[2] = Nil /\ resp = last[1])

C2_Witness ==
    /\ pc = "idle"
    /\ ret = Nil
    /\ SlsAttempts = slsRetries
    /\ resp = <<"o">>

NonAdvisory(e) == e # Nil /\ ~HasPrefix(e.text, WarningPrefix)

AllBuilt == [k \in 1..4 |-> <<BuildOrder[k], Nil>>]

ReturnsOnBuildFailure ==
    pc \in BuildPcs /\ ExecCmdReturns /\ NonAdvisory(last'[2]) =>
        /\ pc' = "idle"
        /\ ret' = last'[2]
        /\ running' = 0
        /\ SlsAttempts' = 0

\* C3: when a build command of DeployStack fails with a non-advisory error,
\* DeployStack returns that error at once, no further build command and no sls
\* invocation is started in that call; sls is invoked only after all four build steps
\* returned nil.
C3_BuildFailureAborts ==
    /\ [][ReturnsOnBuildFailure]_vars
    /\ [][NothingAfterReturn]_vars
    /\ [](op = "Deploy" /\ SlsAttempts > 0 => steps = AllBuilt)
    /\ [](op = "Deploy" =>
            \A k \in DOMAIN steps :
                steps[k][2] # Nil =>
                    /\ k = Len(steps)
                    /\ pc = "idle"
                    /\ ret = steps[k][2]
                    /\ SlsAttempts = 0
                    /\ running = 0)

C3_Witness ==
    /\ op = "Deploy"
    /\ pc = "idle"
    /\ ret = ErrExit
    /\ Len(steps) = 3
    /\ log[Len(log)] = DotnetPackage(Join(YamlDirPath, <<"csharp">>))
    /\ Cardinality(BuildIdx) = 4

\* a directory is looked at or a command is started only when no child is running
NothingWhileChildRuns ==
    \/ running' > running
    \/ \E i \in (Len(log) + 1)..Len(log') : log'[i].ev \in {"stat", "exec"}
    => running = 0

\* C4: the build steps of DeployStack are attempted in the order java8, java11,
\* csharp, golang, one after another: no directory is looked at and no command is
\* started while a child process of the call is running, and at most one runs.
C4_StepsInOrderOneAtATime ==
    /\ [][NothingWhileChildRuns]_vars
    /\ [](running \in {0, 1})
    /\ [](op = "Deploy" =>
            /\ \A i \in 1..(Len(log) - 1) : StepOf(log[i]) <= StepOf(log[i + 1])
            /\ \A i \in StatIdx : StepOf(log[i]) = Cardinality({j \in StatIdx : j <= i})
            /\ \A i \in BuildIdx : \E j \in StatIdx : j < i /\ StepOf(log[j]) = StepOf(log[i])
            /\ SlsAttempts > 0 => Cardinality(StatIdx) = 4
            /\ \A k \in DOMAIN steps : steps[k][1] = BuildOrder[k])

C4_Witness ==
    /\ op = "Deploy"
    /\ pc = "idle"
    /\ Cardinality(BuildIdx) = 5
    /\ SlsAttempts = 2

OneInvocationWhenNothingToBuild ==
    op = "Deploy" /\ AllAbsent /\ pc = "slsFirst" /\ AttemptSucceeds =>
        /\ pc' = "idle"
        /\ ret' = Nil
        /\ BuildIdx' = {}
        /\ SlsAttempts' = 1

\* C5: a build step whose directory does not exist starts no command and returns nil;
\* a DeployStack call that finds no runtime directory starts no build command and,
\* when the first sls attempt succeeds, exactly one sls invocation.
C5_AbsentDirectoryBuildsNothing ==
    /\ [](op = "Deploy" =>
            \A i \in StatIdx :
                log[i].res = "absent" =>
                    /\ \A j \in ExecIdx : log[j].dir # log[i].path
                    /\ steps[StepOf(log[i])] = <<BuildOrder[StepOf(log[i])], Nil>>)
    /\ [](op = "Deploy" /\ AllAbsent => BuildIdx = {})
    /\ [][OneInvocationWhenNothingToBuild]_vars

C5_Witness ==
    /\ op = "Deploy"
    /\ pc = "idle"
    /\ ret = Nil
    /\ AllAbsent
    /\ Len(log) = 5
    /\ log[5] = Sls(<< <<"deploy">>, <<"--no-aws-s3-accelerate">>, <<"-", "-", "suffix">>,
                       suffix >>)

\* s from position i on with every occurrence of a token of length n replaced by new,
\* position by position; occ are the positions at which the token occurs in s
RECURSIVE SubstitutedFrom(_, _, _, _, _)
SubstitutedFrom(s, occ, n, new, i) ==
    IF i > Len(s) THEN <<>>
    ELSE (IF i \in occ THEN new
          ELSE IF \E p \in occ : p < i /\ i < p + n THEN <<>>
          ELSE <<s[i]>>) \o SubstitutedFrom(s, occ, n, new, i + 1)

\* s with every occurrence of token replaced by new (the occurrences of a token that
\* none of its proper suffixes begins cannot overlap)
Substituted(s, token, new) ==
    SubstitutedFrom(s, Occurrences(s, token), Len(token), new, 1)

\* C6: after DeployStack has rewritten the function map, every function name is the
\* name it had at the call with every occurrence of ${opt:suffix} replaced by the
\* suffix generated by this call, that suffix is what every sls invocation of the call
\* passes after --suffix, and once DeployStack has been called no name contains
\* ${opt:suffix}.
C6_NamesCarryTheRunSuffix ==
    /\ op = "Deploy" =>
         /\ suffix = FormatInt(now)
         /\ DOMAIN stack.Functions = DOMAIN prevFuncs
         /\ \A k \in DOMAIN prevFuncs :
              /\ stack.Functions[k].Name =
                     Substituted(prevFuncs[k].Name, Placeholder, suffix)
              /\ stack.Functions[k].Handler = prevFuncs[k].Handler
         /\ \A i \in SlsIdx : SubSeq(log[i].args, 3, 4) = << <<"-", "-", "suffix">>, suffix >>
    /\ deploys > 0 =>
         \A k \in DOMAIN stack.Functions : ~Contains(stack.Functions[k].Name, Placeholder)

C6_Witness ==
    /\ op = "Deploy"
    /\ pc = "idle"
    /\ SlsAttempts > 0
    /\ \E k \in DOMAIN prevFuncs :
         Cardinality(Occurrences(prevFuncs[k].Name, Placeholder)) = 2

\* C7 as stated: in every state StackId() does not contain ${opt:suffix}.
C7_NoPlaceholderLeft == wrapper => ~Contains(StackId, Placeholder)

\* C7 (amended): in every state, before or after any number of calls, StackId() is the
\* service name of the descriptor with every occurrence of -${opt:suffix} (the
\* placeholder with the dash before it) removed in one pass; a placeholder that has
\* no dash before it stays in the result.
C7_DashPlaceholderStripped ==
    wrapper =>
        /\ stack.StackId = newIn.descriptor.StackId
        /\ StackId = Substituted(stack.StackId, DashPlaceholder, <<>>)

C7_Witness ==
    /\ wrapper
    /\ op = "Remove"
    /\ pc = "idle"
    /\ deploys > 0
    /\ Contains(stack.StackId, DashPlaceholder)
    /\ Contains(StackId, Placeholder)

C9_NewSucceedsIff ==
    /\ ~wrapper => calls = 0 /\ op = "none" /\ pc \in {"new", "noWrapper"}
    /\ pc # "new" =>
         /\ wrapper <=> /\ newIn.found
                        /\ newIn.readOk
                        /\ newIn.yamlOk
                        /\ newIn.descriptor.ProviderName = newIn.provider
         /\ wrapper <=> newErr = Nil
         /\ wrapper => /\ provider = newIn.provider
                       /\ stack.ProviderName = newIn.provider
                       /\ calls = 0 => stack = newIn.descriptor
    /\ pc = "noWrapper" =>
         /\ ~newIn.found => newErr = ErrNotInstalled /\ log = <<[ev |-> "LookPath"]>>
         /\ /\ newIn.found
            /\ newIn.readOk
            /\ newIn.yamlOk
            => /\ Contains(newErr.text, newIn.provider)
               /\ Contains(newErr.text, newIn.descriptor.ProviderName)
               /\ newIn.provider # newIn.descriptor.ProviderName

C9_Witness ==
    /\ pc = "noWrapper"
    /\ newErr = ErrProvider(<<"aws">>, <<"gcp">>)

\* the goroutine that called execCmd is past cmd.Wait
PastWait == ePc \in {"checkStdout", "checkStderr", "return", "done"} /\ child.state # "none"

\* C10: execCmd reads errStdout, errStderr and stdoutBuf only after both copying
\* goroutines have finished, so that what it returns is the whole trimmed output of
\* the child and a failed copy is always reported.
C10_CopiesJoined ==
    /\ PastWait => cpOut = "done" /\ cpErr = "done"
    /\ ePc = "done" /\ child.state # "none" =>
         /\ eRet[2] # ErrCapture => eRet[1] = TrimSpace(child.all)
         /\ errStdout # Nil \/ errStderr # Nil => eRet = <<<<>>, ErrCapture>>

\* what an sls invocation of method m carries behind its subcommand words
Flags(args, m) == SubSeq(args, Len(SubCommand(m)) + 1, Len(args))

\* flags is --suffix and its value, then one "--name value" pair for each entry of opts
\* and nothing else
SuffixThenOptions(flags, sfx, opts) ==
    /\ Len(flags) = 2 + 2 * Cardinality(DOMAIN opts)
    /\ SubSeq(flags, 1, 2) = << <<"-", "-", "suffix">>, sfx >>
    /\ \A k \in DOMAIN opts :
         Cardinality({j \in 1..Cardinality(DOMAIN opts) :
                         /\ flags[2 * j + 1] = <<"-", "-">> \o k
                         /\ flags[2 * j + 2] = opts[k]}) = 1

\* C11: every sls invocation of DeployStack, RemoveStack and ListFunction has the
\* subcommand words of the method, then --suffix and Wrapper.suffix, then exactly one
\* "--name value" pair for every entry of Wrapper.Opts and nothing else; its working
\* directory is yamlDirPath; all attempts of one execSlsCmd call are the same invocation.
C11_SlsArguments ==
    LET attempts == SlsIdx
        first == log[Min(attempts)]
    IN  attempts # {} =>
            /\ first.dir = YamlDirPath
            /\ SubSeq(first.args, 1, Len(SubCommand(op))) = SubCommand(op)
            /\ SuffixThenOptions(Flags(first.args, op), suffix, Opts)
            /\ \A i \in attempts : log[i] = first

C11_Witness ==
    /\ op = "List"
    /\ pc = "idle"
    /\ SlsAttempts = 3
    /\ deploys = 1
    /\ Cardinality(DOMAIN Opts) = 2
    /\ Flags(log[1].args, "List")[3] = <<"-", "-", "region">>

\* RemoveStack and ListFunction, from the call on, change no field of the Wrapper
FieldsKept ==
    op' \in {"Remove", "List"} =>
        /\ suffix' = suffix
        /\ stack' = stack
        /\ provider' = provider
        /\ Opts' = Opts

\* C12: RemoveStack and ListFunction leave suffix, stack (function map, StackId,
\* provider fields), provider and Opts as they are, whether they succeed or fail, and
\* start no build command; the value RemoveStack passes after --suffix is the suffix of
\* the most recent DeployStack call, and the empty string when there was none.
C12_RemoveAndListKeepState ==
    /\ [][FieldsKept]_vars
    /\ [](op \in {"Remove", "List"} =>
            /\ BuildIdx = {}
            /\ StatIdx = {}
            /\ \A i \in SlsIdx :
                 Flags(log[i].args, op)[2] = IF deploys = 0 THEN <<>> ELSE FormatInt(now))

C12_Witness ==
    /\ op = "Remove"
    /\ pc = "idle"
    /\ ret # Nil
    /\ deploys = 1
    /\ Flags(log[1].args, "Remove")[2] = FormatInt(now)

SleepIdx == {i \in DOMAIN log : log[i].ev = "sleep"}

\* C13 as stated: between every two consecutive attempts of one execSlsCmd call there
\* is a five second delay, and a delay occurs only between two attempts.
C13_DelayBetweenAttempts ==
    /\ \A i \in SlsIdx, j \in SlsIdx :
         i < j => \E k \in SleepIdx : i < k /\ k < j
    /\ pc = "idle" =>
         \A k \in SleepIdx : \E i \in SlsIdx, j \in SlsIdx : i < k /\ k < j

\* C14 as stated: the child of go build is started with GOOS=linux and GO111MODULE=on
\* in its environment, every other child with no extra variables: the env handed to
\* execCmd is added to the environment of the child.
C14_EnvReachesChild ==
    \A i \in ExecIdx :
        /\ log[i].env = IF log[i].command = <<"go">> THEN GoEnv ELSE <<>>
        /\ log[i].childEnv = Environ \o log[i].env

\* the names of the function map are those of before with the placeholder replaced by sfx
NamesSubstituted(before, sfx) ==
    /\ DOMAIN stack.Functions = DOMAIN before
    /\ \A k \in DOMAIN before :
         stack.Functions[k].Name = Substituted(before[k].Name, Placeholder, sfx)

MutatesFirst ==
    deploys' > deploys =>
        /\ log' = <<>>
        /\ running' = 0
        /\ suffix' = FormatInt(now')
        /\ stack'.Functions = Rewrite(stack.Functions, suffix')

\* no later step of the call, and no RemoveStack that follows, changes them
NeverReverted ==
    deploys' = deploys /\ op' \in {"Deploy", "Remove"} =>
        /\ suffix' = suffix
        /\ stack' = stack

\* C16: DeployStack assigns suffix and rewrites the names before it starts any child
\* process and does not undo it: when the call returns an error, of a build step or of
\* the last sls attempt, suffix is the one generated by that call and the names carry
\* it, and a RemoveStack that follows passes that suffix after --suffix.
C16_NoRollbackOnFailure ==
    /\ [][MutatesFirst]_vars
    /\ [][NeverReverted]_vars
    /\ [](op = "Deploy" /\ pc = "idle" /\ ret # Nil =>
            /\ suffix = FormatInt(now)
            /\ NamesSubstituted(prevFuncs, suffix))
    /\ [](op = "Remove" /\ deploys > 0 =>
            \A i \in SlsIdx : Flags(log[i].args, op)[2] = suffix /\ suffix = FormatInt(now))

C16_Witness ==
    /\ op = "Deploy"
    /\ pc = "idle"
    /\ ret = ErrCapture
    /\ SlsAttempts = slsRetries + 1
    /\ suffix = FormatInt(now)
    /\ \E k \in DOMAIN prevFuncs :
         /\ Contains(prevFuncs[k].Name, Placeholder)
         /\ Contains(stack.Functions[k].Name, suffix)

\* what DeployStack does with the error e of mvn package in step pc
JavaStepEnds(e) ==
    IF e = Nil \/ HasPrefix(e.text, WarningPrefix)
    THEN /\ steps' = Append(steps, <<pc, Nil>>)
         /\ pc' = NextStep(pc)
         /\ ret' = Nil
    ELSE /\ steps' = Append(steps, <<pc, e>>)
         /\ pc' = "idle"
         /\ ret' = e

SwallowsOrReturns ==
    pc \in {"java8", "java11"} /\ ExecCmdReturns => JavaStepEnds(last'[2])

\* C17: in buildJava an error of mvn package whose text starts with WARNING is
\* swallowed: the step returns nil and DeployStack goes on to the next step; any other
\* error of mvn package is returned as it is and DeployStack returns it.
C17_JavaWarningSwallowed ==
    /\ [][SwallowsOrReturns]_vars
    /\ [](op = "Deploy" /\ Len(steps) >= 2 => steps[1][2] = Nil)

C17_Witness ==
    /\ pc = "csharp"
    /\ running = 0
    /\ last = <<<<"o">>, ErrWarning>>
    /\ steps = << <<"java8", Nil>>, <<"java11", Nil>> >>

\* the words an sls invocation of the wrapper in its present state carries as flags
FlagWords ==
    {<<"-", "-", "suffix">>, suffix}
        \cup {<<"-", "-">> \o k : k \in DOMAIN Opts} \cup {Opts[k] : k \in DOMAIN Opts}

\* C18: a build command is never retried and does not go through execSlsCmd: in one
\* DeployStack call each of mvn package (per Java version), dotnet restore, dotnet
\* lambda package and go build is started at most once, at most five in all, none
\* carries --suffix or an option of Opts, and only sls invocations are repeated.
C18_BuildsNotRetried ==
    /\ [](BuildIdx # {} => op = "Deploy" /\ Cardinality(BuildIdx) <= 5)
    /\ [](\A i \in BuildIdx, j \in BuildIdx : i < j => log[i] # log[j])
    /\ [](\A i \in BuildIdx :
            /\ \A n \in DOMAIN log[i].args : log[i].args[n] \notin FlagWords
            /\ \A j \in SlsIdx : i < j)

C18_Witness ==
    /\ op = "Deploy"
    /\ pc = "idle"
    /\ ret = Nil
    /\ Cardinality(BuildIdx) = 5
    /\ SlsAttempts = 2
    /\ DOMAIN Opts # {}

\* execCmd returns by the precedence start error, capture error, exit error
ReturnsByPrecedence ==
    ePc # "done" /\ ePc' = "done" =>
        IF child'.state = "none"
        THEN eRet' = <<<<>>, ErrStart>> /\ cpOut' = "none" /\ cpErr' = "none"
        ELSE IF errStdout' # Nil \/ errStderr' # Nil
        THEN eRet' = <<<<>>, ErrCapture>>
        ELSE eRet' = <<TrimSpace(stdoutBuf'), child'.werr>>

\* C19 as stated: execCmd returns the start error and empty output, with no copying
\* goroutine started, when the child does not start; otherwise the capture error and
\* empty output when a copy has failed, whatever cmd.Wait returned; otherwise the
\* trimmed content of stdoutBuf and the error of cmd.Wait.
C19_ErrorPrecedence == [][ReturnsByPrecedence]_vars

\* C20: when every child process that is started exits, every DeployStack, RemoveStack
\* and ListFunction call returns to its caller, and a call starts at most five build
\* commands and at most slsRetries + 1 sls attempts, also when every attempt fails.
C20_EveryCallReturns ==
    /\ [](Cardinality(BuildIdx) <= 5 /\ SlsAttempts <= slsRetries + 1)
    /\ pc \in BuildPcs \cup SlsPcs ~> pc = "idle"

C20_Witness ==
    /\ op = "Deploy"
    /\ pc = "idle"
    /\ ret = ErrExit
    /\ Cardinality(BuildIdx) = 5
    /\ SlsAttempts = slsRetries + 1

====
